---------------------------- MODULE Spec2Model ----------------------------
(***************************************************************************)
(* rollup-plugin-esmwasm (src/src/index.mjs): the plugin factory           *)
(* wasmPlugin, its two hooks resolveId and load, the helpers parseWasm,    *)
(* createBase64UriForWasm and generateWasmInitCode, and the execution of   *)
(* the generated shim.                                                     *)
(*                                                                         *)
(* Spec      the plugin: construction, resolveId, load (one step per       *)
(*           suspension point), with the file system changing underneath.  *)
(* ShimSpec  generateWasmInitCode on bounded inputs, and the evaluation of *)
(*           the module text it returns.                                   *)
(***************************************************************************)
EXTENDS Integers, Sequences, FiniteSets, TLC

VARIABLES
    \* ---- wasmPlugin(options) ----
    plugin,        \* "unconstructed" | "ready" | "threw"
    options,       \* the argument: [maxFileSize, targetEnv], absent keys are Undefined
    maxFileSize,   \* closure constant of the hooks (line 124)
    targetEnv,     \* closure constant of the hooks (line 125)
    configError,   \* message of the Error thrown by wasmPlugin, "" when none
    \* ---- environment of the hooks ----
    files,         \* file system: path -> bytes
    meta,          \* host's resolution metadata: path -> wasmPath (Null when none)
    \* ---- resolveId ----
    resolveRet,    \* what the last resolveId call returned
    \* ---- load(id): locals of the call in progress ----
    pc,            \* position of load
    loadId,        \* id
    statSize,      \* stats.size (line 164)
    shouldInline,  \* line 166
    parsePc,       \* position of the parseWasm(id) promise
    parseBuf,      \* wasmBinary (line 23)
    parsed,        \* { imports, exports } (line 52)
    encPc,         \* position of the createBase64UriForWasm(id) promise
    wasmUrl,       \* second element of the Promise.all result (line 168)
    fileName,      \* line 176
    emitBuf,       \* bytes read at line 180
    emitted,       \* this.emitFile calls of this load, in order
    calls,         \* how often each call site ran in this load
    ret,           \* what load returned
    \* ---- generateWasmInitCode and the generated module ----
    genImports,    \* argument imports
    genExports,    \* argument exports
    genUrl,        \* argument wasmUrl
    shim,          \* the generated module text, structured
    runPc,         \* position of the module's evaluation
    response,      \* fetch's Response
    bytesIn,       \* bytes handed to WebAssembly.instantiate
    wasmModule,    \* const wasmModule (line 109)
    fault,         \* the error caught at line 100
    thrown,        \* errors that left the module's evaluation
    bound          \* export bindings initialised so far

pluginVars == <<plugin, options, maxFileSize, targetEnv, configError>>
hostVars == <<files, meta>>
loadVars == <<pc, loadId, statSize, shouldInline, parsePc, parseBuf, parsed, encPc,
              wasmUrl, fileName, emitBuf, emitted, calls, ret>>
shimVars == <<genImports, genExports, genUrl, shim, runPc, response, bytesIn,
              wasmModule, fault, thrown, bound>>
vars == <<pluginVars, hostVars, resolveRet, loadVars, shimVars>>

---------------------------------------------------------------------------
(* Bounds of the model *)

\* longest file, in bytes
MaxFileBytes == 2
\* largest explicit maxFileSize option
MaxThreshold == 1
\* most names per import group / most exports handed to generateWasmInitCode
MaxNames == 2
MaxExports == 2

---------------------------------------------------------------------------
(* JavaScript values *)

Undefined == [t |-> "undefined"]
Null == [t |-> "null"]
NaN == [t |-> "number", nan |-> TRUE]
Num(n) == [t |-> "number", v |-> n]
Str(s) == [t |-> "string", s |-> s]

TypeOf(x) == IF x.t = "null" THEN "object" ELSE x.t
IsNaN(x) == x.t = "number" /\ "nan" \in DOMAIN x

\* a < b, a <= b, a > b on numbers: false as soon as one side is NaN
JsLt(a, b) == ~IsNaN(a) /\ ~IsNaN(b) /\ a.v < b.v
JsLe(a, b) == ~IsNaN(a) /\ ~IsNaN(b) /\ a.v <= b.v
JsGt(a, b) == ~IsNaN(a) /\ ~IsNaN(b) /\ a.v > b.v
\* a === b (NaN === NaN is false)
StrictEq(a, b) == ~IsNaN(a) /\ ~IsNaN(b) /\ a = b

---------------------------------------------------------------------------
(* Paths and the file system *)

Path(dir, stem, ext) == [dir |-> dir, stem |-> stem, ext |-> ext]
PathString(p) == p.dir \o "/" \o p.stem \o p.ext

FooA == Path("/a", "foo", ".wasm")
FooB == Path("/b", "foo", ".wasm")
UtilJs == Path("/a", "util", ".js")
Ghost == Path("/a", "ghost", ".wasm")

\* the .wasm files on disk
WasmFiles == {FooA, FooB}
\* module specifiers handed to the hooks
Sources == WasmFiles \cup {UtilJs, Ghost}

\* source.endsWith('.wasm')
EndsWithWasm(p) == p.ext = ".wasm"
\* path.basename(p)
Basename(p) == p.stem \o p.ext
\* path.basename(p, '.wasm')
BasenameNoWasm(p) == IF p.ext = ".wasm" THEN p.stem ELSE p.stem \o p.ext

Prefix(k) == [i \in 1..k |-> i]
\* the byte contents a file can have: <<>>, <<1>>, <<1,2>>, ...
Contents == {Prefix(k) : k \in 0..MaxFileBytes}


---------------------------------------------------------------------------
(* Base64 and URLs *)

\* readFile(filePath, 'base64'): the index of each output character in the
\* base64 alphabet, 64 standing for the padding character '='
Base64Encode(b) ==
    [j \in 1..(4 * ((Len(b) + 2) \div 3)) |->
        LET g == (j - 1) \div 4
            r == (j - 1) % 4
            has(i) == 3 * g + i <= Len(b)
            B(i) == IF has(i) THEN b[3 * g + i] ELSE 0
        IN  CASE r = 0 -> B(1) \div 4
              [] r = 1 -> (B(1) % 4) * 16 + (B(2) \div 16)
              [] r = 2 -> IF has(2) THEN (B(2) % 16) * 4 + (B(3) \div 64) ELSE 64
              [] r = 3 -> IF has(3) THEN B(3) % 64 ELSE 64]

\* Buffer.from(s, "base64") / atob(s) on well-formed input
Base64Decode(s) ==
    LET groups == Len(s) \div 4
        pad == IF Len(s) = 0 THEN 0
               ELSE (IF s[Len(s)] = 64 THEN 1 ELSE 0) + (IF s[Len(s) - 1] = 64 THEN 1 ELSE 0)
        S(j) == IF s[j] = 64 THEN 0 ELSE s[j]
    IN  [k \in 1..(3 * groups - pad) |->
            LET g == (k - 1) \div 3
                r == (k - 1) % 3
                q(i) == S(4 * g + i)
            IN  CASE r = 0 -> q(1) * 4 + (q(2) \div 16)
                  [] r = 1 -> (q(2) % 16) * 16 + (q(3) \div 4)
                  [] r = 2 -> (q(3) % 4) * 64 + q(4)]

\* A URL string, kept in three pieces: the scheme prefix the shim tests for,
\* the rest of the text up to the payload, and the base64 payload.
DataUri(base64) == [scheme |-> "data:", text |-> "application/wasm;base64,", base64 |-> base64]
AssetUrl(name) == [scheme |-> "", text |-> name, base64 |-> <<>>]
\* wasmUrl.startsWith('data:')
StartsWithData(u) == u.scheme = "data:"
\* wasmUrl.replace(/^data:.*?base64,/, '')
Base64Content(u) == u.base64

\* createBase64UriForWasm on a successful read of `bytes`
CreateBase64Uri(bytes) == DataUri(Base64Encode(bytes))

---------------------------------------------------------------------------
(* crypto.createHash('md5').update(s).digest('hex').slice(0, 8) *)

Md5Hex8(s) ==
    CASE s = "/a/foo.wasm" -> "293902b0"
      [] s = "/b/foo.wasm" -> "b7a20fc3"
      [] s = "/a/ghost.wasm" -> "190c9447"
      [] s = "/a/util.js" -> "b1a72834"

\* the asset file name resolveId derives from a resolved id
HashedNameStem(stem, hash) == stem \o "-" \o hash \o ".wasm"
HashedName(id) == HashedNameStem(BasenameNoWasm(id), Md5Hex8(PathString(id)))

---------------------------------------------------------------------------
(* The WebAssembly engine, seen from parseWasm and from the shim *)

\* WebAssembly.compile(bytes) rejects bytes that are not a module
WasmValid(bytes) == Len(bytes) > 0 /\ bytes[1] = 1
\* WebAssembly.Module.imports(module): the (module, name) pairs, in order
WasmImports(bytes) ==
    [i \in 1..Len(bytes) |->
        [module |-> IF bytes[i] % 2 = 1 THEN "env" ELSE "js",
         name |-> "g" \o ToString(i)]]
\* WebAssembly.Module.exports(module): the names, in order
WasmExports(bytes) == [i \in 1..Len(bytes) |-> "f" \o ToString(i)]

---------------------------------------------------------------------------
(* parseWasm *)

\* position of the group of `module` in the Map's insertion order, 0 when absent
GroupIndex(acc, module) ==
    IF \E i \in 1..Len(acc) : acc[i].from = module
    THEN CHOOSE i \in 1..Len(acc) : acc[i].from = module
    ELSE 0

\* one iteration of the forEach of line 29
AddImport(acc, imp) ==
    IF GroupIndex(acc, imp.module) = 0
    THEN Append(acc, [from |-> imp.module, names |-> <<imp.name>>])
    ELSE [acc EXCEPT ![GroupIndex(acc, imp.module)].names = Append(@, imp.name)]

RECURSIVE GroupImports(_, _)
GroupImports(pairs, acc) ==
    IF pairs = <<>> THEN acc
    ELSE GroupImports(Tail(pairs), AddImport(acc, Head(pairs)))

\* the value parseWasm resolves to once the bytes compiled
ParseResult(bytes) ==
    [imports |-> GroupImports(WasmImports(bytes), <<>>),
     exports |-> WasmExports(bytes)]

---------------------------------------------------------------------------
(* generateWasmInitCode *)

\* `import${i}`, i counting from 0
BindingName(i) == "import" \o ToString(i - 1)

\* line 106: import * as import${i} from '${imp.from}';
ImportStmts(imports) ==
    [i \in 1..Len(imports) |-> [binding |-> BindingName(i), from |-> imports[i].from]]

\* ImportObject with every member read from the first namespace binding
ImportObject_FirstBinding(imports) ==
    [i \in 1..Len(imports) |->
        [key |-> imports[i].from,
         props |-> [j \in 1..Len(imports[i].names) |->
                      [key |-> imports[i].names[j],
                       binding |-> BindingName(1),
                       member |-> imports[i].names[j]]]]]

\* line 110: '${imp.from}': { '${name}': import${i}.${name}, ... }
ImportObject(imports) ==
    [i \in 1..Len(imports) |->
        [key |-> imports[i].from,
         props |-> [j \in 1..Len(imports[i].names) |->
                      [key |-> imports[i].names[j],
                       binding |-> BindingName(i),
                       member |-> imports[i].names[j]]]]]

\* line 114: export const ${name} = wasmModule.${name};
ExportStmts(exports) ==
    [k \in 1..Len(exports) |-> [name |-> exports[k], member |-> exports[k]]]

\* the module text, statement by statement (initWasm's body is the fixed text
\* of lines 62-103; its execution is the Run* actions below)
GenerateWasmInitCode(imports, exports, url) ==
    [importStmts |-> ImportStmts(imports),
     importObject |-> ImportObject(imports),
     wasmUrl |-> url,
     exportStmts |-> ExportStmts(exports)]


---------------------------------------------------------------------------
(* wasmPlugin(options) *)

DefaultMaxFileSize == 14336

\* a destructuring default applies to an absent (undefined) property only
OrDefault(x, d) == IF x = Undefined THEN d ELSE x

MaxFileSizeOptions ==
    {Undefined, Null, NaN, Str("14336")} \cup {Num(n) : n \in (-1)..MaxThreshold}
TargetEnvOptions == {Undefined, Null, Str("node"), Str("browser"), Str("deno")}
Options == [maxFileSize : MaxFileSizeOptions, targetEnv : TargetEnvOptions]

\* ConfigCheck with `maxFileSize <= 0` for `maxFileSize < 0`: 0 is refused
ConfigCheck_RejectZero(mfs, te) ==
    IF te # Str("node") /\ te # Str("browser")
    THEN "targetEnv must be node or browser"
    ELSE IF TypeOf(mfs) # "number" \/ JsLe(mfs, Num(0))
    THEN "maxFileSize must be a non-negative number"
    ELSE ""

\* lines 128-134: the message of the Error thrown, "" when none is
ConfigCheck(mfs, te) ==
    IF te # Str("node") /\ te # Str("browser")
    THEN "targetEnv must be node or browser"
    ELSE IF TypeOf(mfs) # "number" \/ JsLt(mfs, Num(0))
    THEN "maxFileSize must be a non-negative number"
    ELSE ""

Construct ==
    /\ plugin = "unconstructed"
    /\ LET mfs == OrDefault(options.maxFileSize, Num(DefaultMaxFileSize))
           te == OrDefault(options.targetEnv, Str("node"))
           err == ConfigCheck(mfs, te)
       IN  IF err # ""
           THEN /\ plugin' = "threw"
                /\ configError' = err
                /\ UNCHANGED <<maxFileSize, targetEnv>>
           ELSE /\ plugin' = "ready"
                /\ maxFileSize' = mfs
                /\ targetEnv' = te
                /\ UNCHANGED configError
    /\ UNCHANGED <<options, hostVars, resolveRet, loadVars, shimVars>>

---------------------------------------------------------------------------
(* The host and the file system *)

\* this.resolve(source, ...): null for what is not on disk, else the host's
\* resolution record of the file, which carries the metadata resolveId
\* attached to it (line 151) so that load finds it again (line 176)
HostResolve(source) ==
    IF source \in WasmFiles \cup {UtilJs}
    THEN [t |-> "resolved", id |-> source,
          wasmPath |-> IF source \in WasmFiles THEN meta[source] ELSE Undefined]
    ELSE Null

\* the file a concurrent writer keeps rewriting
Rewritten == {FooA}

\* a concurrent writer replaces a file's bytes
ModifyFile(p, c) ==
    /\ plugin = "ready"
    /\ p \in Rewritten
    /\ files[p] # c
    /\ files' = [files EXCEPT ![p] = c]
    /\ UNCHANGED <<pluginVars, meta, resolveRet, loadVars, shimVars>>

---------------------------------------------------------------------------
(* resolveId(source, importer) *)

\* line 145
NeedsAssetName(mfs, size) == JsGt(mfs, Num(0)) /\ JsGt(Num(size), mfs)

ResolveId(source, statOk) ==
    /\ plugin = "ready"
    /\ IF ~EndsWithWasm(source)
       THEN resolveRet' = Null /\ UNCHANGED meta
       ELSE LET resolved == HostResolve(source)
            IN  IF resolved = Null
                THEN resolveRet' = Undefined /\ UNCHANGED meta
                ELSE IF ~statOk
                THEN resolveRet' = [t |-> "threw"] /\ UNCHANGED meta
                ELSE /\ meta' = IF NeedsAssetName(maxFileSize, Len(files[resolved.id]))
                                THEN [meta EXCEPT ![resolved.id] = Str(HashedName(resolved.id))]
                                ELSE meta
                     /\ resolveRet' = [t |-> "id", id |-> resolved.id]
    /\ UNCHANGED <<pluginVars, files, loadVars, shimVars>>

---------------------------------------------------------------------------
(* load(id) *)

CallSites == {"statSync", "parse.readFile", "compile", "encode.readFile",
              "resolve", "emit.readFile", "emitFile", "error"}
NoCalls == [s \in CallSites |-> 0]
Called(c, s) == [c EXCEPT ![s] = @ + 1]

\* ShouldInline without `|| targetEnv === 'node'`
ShouldInline_NoNode(mfs, te, size) ==
    IF StrictEq(mfs, Num(0)) THEN FALSE ELSE JsLe(Num(size), mfs)

\* ShouldInline with the size comparison turned round (`>` for `<=`)
ShouldInline_Flipped(mfs, te, size) ==
    (IF StrictEq(mfs, Num(0)) THEN FALSE ELSE JsGt(Num(size), mfs)) \/ te = Str("node")

\* line 166
ShouldInline(mfs, te, size) ==
    (IF StrictEq(mfs, Num(0)) THEN FALSE ELSE JsLe(Num(size), mfs)) \/ te = Str("node")

\* line 176
AssetFileName(wasmPath, id) == IF wasmPath.t = "string" THEN wasmPath.s ELSE Basename(id)

\* the value load returns with generated module text
ShimText(code) == [t |-> "code", code |-> code]
\* Caught with an empty catch block: the failure is swallowed
Caught_NoReport(c) ==
    /\ calls' = c
    /\ ret' = Undefined
    /\ pc' = "done"

\* the catch of line 186: this.error is called and load yields no module text
\* (the host's this.error throws; were it to return, load returns undefined)
Caught(c) ==
    /\ calls' = Called(c, "error")
    /\ ret' = Undefined
    /\ pc' = "done"

NoBytes == <<>>
NoParse == [imports |-> <<>>, exports |-> <<>>]

\* lines 160-171, up to the await of Promise.all
LoadStart(id, statOk) ==
    /\ plugin = "ready"
    /\ pc \in {"idle", "done"}
    /\ loadId' = id
    /\ parseBuf' = NoBytes /\ parsed' = NoParse /\ wasmUrl' = Null
    /\ fileName' = "" /\ emitBuf' = NoBytes /\ emitted' = <<>>
    /\ IF ~EndsWithWasm(id)
       THEN /\ ret' = Null /\ pc' = "done" /\ calls' = NoCalls
            /\ statSize' = 0 /\ shouldInline' = FALSE
            /\ parsePc' = "none" /\ encPc' = "none"
       ELSE IF ~(statOk /\ id \in WasmFiles)
       THEN /\ Caught(Called(NoCalls, "statSync"))
            /\ statSize' = 0 /\ shouldInline' = FALSE
            /\ parsePc' = "none" /\ encPc' = "none"
       ELSE /\ statSize' = Len(files[id])
            /\ shouldInline' = ShouldInline(maxFileSize, targetEnv, Len(files[id]))
            /\ parsePc' = "read"
            /\ encPc' = IF shouldInline' THEN "read" ELSE "fulfilled"
            /\ calls' = Called(NoCalls, "statSync")
            /\ ret' = Undefined
            /\ pc' = "await"
    /\ UNCHANGED <<pluginVars, hostVars, resolveRet, shimVars>>

\* parseWasm, line 23
ParseRead(ok) ==
    /\ pc = "await"
    /\ parsePc = "read"
    /\ calls' = Called(calls, "parse.readFile")
    /\ IF ok
       THEN parseBuf' = files[loadId] /\ parsePc' = "compile"
       ELSE parsePc' = "rejected" /\ UNCHANGED parseBuf
    /\ UNCHANGED <<pluginVars, hostVars, resolveRet, shimVars, pc, loadId, statSize,
                   shouldInline, parsed, encPc, wasmUrl, fileName, emitBuf, emitted, ret>>

\* parseWasm, lines 25-52
ParseCompile ==
    /\ pc = "await"
    /\ parsePc = "compile"
    /\ calls' = Called(calls, "compile")
    /\ IF WasmValid(parseBuf)
       THEN parsed' = ParseResult(parseBuf) /\ parsePc' = "fulfilled"
       ELSE parsePc' = "rejected" /\ UNCHANGED parsed
    /\ UNCHANGED <<pluginVars, hostVars, resolveRet, shimVars, pc, loadId, statSize,
                   shouldInline, parseBuf, encPc, wasmUrl, fileName, emitBuf, emitted, ret>>

\* createBase64UriForWasm, lines 10-11
EncodeRead(ok) ==
    /\ pc = "await"
    /\ encPc = "read"
    /\ calls' = Called(calls, "encode.readFile")
    /\ IF ok
       THEN wasmUrl' = CreateBase64Uri(files[loadId]) /\ encPc' = "fulfilled"
       ELSE encPc' = "rejected" /\ UNCHANGED wasmUrl
    /\ UNCHANGED <<pluginVars, hostVars, resolveRet, shimVars, pc, loadId, statSize,
                   shouldInline, parsePc, parseBuf, parsed, fileName, emitBuf, emitted, ret>>

\* Promise.all rejects as soon as one of the two promises has: line 186.
\* The other promise is not awaited any further; what it still does changes
\* nothing load can see, and its steps end here.
LoadRejected ==
    /\ pc = "await"
    /\ parsePc = "rejected" \/ encPc = "rejected"
    /\ Caught(calls)
    /\ UNCHANGED <<pluginVars, hostVars, resolveRet, shimVars, loadId, statSize,
                   shouldInline, parsePc, parseBuf, parsed, encPc, wasmUrl, fileName,
                   emitBuf, emitted>>

\* Promise.all fulfilled: lines 174 and 185
LoadGathered ==
    /\ pc = "await"
    /\ parsePc = "fulfilled" /\ encPc = "fulfilled"
    /\ IF ~shouldInline
       THEN pc' = "resolve" /\ UNCHANGED ret
       ELSE /\ ret' = ShimText(GenerateWasmInitCode(parsed.imports, parsed.exports, wasmUrl))
            /\ pc' = "done"
    /\ UNCHANGED <<pluginVars, hostVars, resolveRet, shimVars, loadId, statSize,
                   shouldInline, parsePc, parseBuf, parsed, encPc, wasmUrl, fileName,
                   emitBuf, emitted, calls>>

\* lines 175-176; the host's resolve may reject or find nothing
LoadResolve(outcome) ==
    /\ pc = "resolve"
    /\ LET resolved == IF outcome = "resolved" THEN HostResolve(loadId) ELSE Null
       IN  IF outcome = "rejected" \/ resolved = Null
           THEN Caught(Called(calls, "resolve")) /\ UNCHANGED fileName
           ELSE /\ fileName' = AssetFileName(resolved.wasmPath, loadId)
                /\ calls' = Called(calls, "resolve")
                /\ pc' = "emit"
                /\ UNCHANGED ret
    /\ UNCHANGED <<pluginVars, hostVars, resolveRet, shimVars, loadId, statSize,
                   shouldInline, parsePc, parseBuf, parsed, encPc, wasmUrl, emitBuf,
                   emitted>>

\* Asset registered under a directory the returned module text does not name
Asset_Prefixed(name, bytes) ==
    [type |-> "asset", fileName |-> "assets/" \o name, source |-> bytes]

\* the asset this.emitFile is called with, lines 177-181
Asset(name, bytes) == [type |-> "asset", fileName |-> name, source |-> bytes]

\* lines 177-182: the read of line 180 resumes straight into emitFile and the return
LoadEmit(readOk, emitOk) ==
    /\ pc = "emit"
    /\ IF ~readOk
       THEN /\ Caught(Called(calls, "emit.readFile"))
            /\ UNCHANGED <<emitBuf, emitted>>
       ELSE /\ emitBuf' = files[loadId]
            /\ IF ~emitOk
               THEN /\ Caught(Called(Called(calls, "emit.readFile"), "emitFile"))
                    /\ UNCHANGED emitted
               ELSE /\ emitted' = Append(emitted, Asset(fileName, emitBuf'))
                    /\ calls' = Called(Called(calls, "emit.readFile"), "emitFile")
                    /\ ret' = ShimText(GenerateWasmInitCode(parsed.imports, parsed.exports,
                                                            AssetUrl(fileName)))
                    /\ pc' = "done"
    /\ UNCHANGED <<pluginVars, hostVars, resolveRet, shimVars, loadId, statSize,
                   shouldInline, parsePc, parseBuf, parsed, encPc, wasmUrl, fileName>>

---------------------------------------------------------------------------
(* The plugin's specification *)

ShimIdle ==
    /\ genImports = <<>> /\ genExports = <<>> /\ genUrl = Null
    /\ shim = Null /\ runPc = "off" /\ response = Null
    /\ bytesIn = NoBytes /\ wasmModule = Null /\ fault = Null
    /\ thrown = <<>> /\ bound = <<>>

LoadIdle ==
    /\ pc = "idle" /\ loadId = FooA /\ statSize = 0 /\ shouldInline = FALSE
    /\ parsePc = "none" /\ parseBuf = NoBytes /\ parsed = NoParse /\ encPc = "none"
    /\ wasmUrl = Null /\ fileName = "" /\ emitBuf = NoBytes /\ emitted = <<>>
    /\ calls = NoCalls /\ ret = Undefined

Init ==
    /\ plugin = "unconstructed"
    /\ options \in Options
    /\ maxFileSize = Undefined /\ targetEnv = Undefined /\ configError = ""
    /\ files = [p \in WasmFiles |-> IF p = FooA THEN Prefix(1) ELSE Prefix(MaxFileBytes)]
    /\ meta = [p \in WasmFiles |-> Undefined]
    /\ resolveRet = Undefined
    /\ LoadIdle
    /\ ShimIdle

Next ==
    \/ Construct
    \/ \E p \in WasmFiles, c \in Contents : ModifyFile(p, c)
    \/ \E s \in Sources, ok \in BOOLEAN : ResolveId(s, ok)
    \/ \E id \in Sources, ok \in BOOLEAN : LoadStart(id, ok)
    \/ \E ok \in BOOLEAN : ParseRead(ok)
    \/ ParseCompile
    \/ \E ok \in BOOLEAN : EncodeRead(ok)
    \/ LoadRejected
    \/ LoadGathered
    \/ \E o \in {"resolved", "null", "rejected"} : LoadResolve(o)
    \/ \E r \in BOOLEAN, e \in BOOLEAN : LoadEmit(r, e)

Spec == Init /\ [][Next]_vars


---------------------------------------------------------------------------
(* Evaluation of the generated module (lines 62-114 of the template) *)

\* line 101
WrapError(message) == "WASM initialization failed: " \o message

\* wasmModule.${name} on instance.exports
Member(exports, name) ==
    IF \E i \in 1..Len(exports) : exports[i] = name
    THEN [t |-> "wasmExport", name |-> name]
    ELSE Undefined

\* line 114, every export statement in turn
BindExports(stmts, exports) ==
    [k \in 1..Len(stmts) |-> [name |-> stmts[k].name, value |-> Member(exports, stmts[k].member)]]

\* RunFails with a catch that returns {} and does not rethrow: the module goes
\* on to its export statements
RunFails_Swallowed(message) ==
    /\ fault' = Str(message)
    /\ wasmModule' = <<>>
    /\ bound' = BindExports(shim.exportStmts, <<>>)
    /\ runPc' = "evaluated"
    /\ UNCHANGED thrown

\* the catch of line 100 rethrows; the top-level await of line 109 lets the
\* error leave the module, whose export statements are never reached
RunFails(message) ==
    /\ fault' = Str(message)
    /\ thrown' = Append(thrown, WrapError(message))
    /\ runPc' = "failed"
    /\ UNCHANGED <<wasmModule, bound>>

\* lines 69-78: the decoder the runtime has, Null when it has none
Decoder(e) == IF e.buffer THEN Str("Buffer.from") ELSE IF e.atob THEN Str("atob") ELSE Null

\* lines 80-81, 90-91, 95-96, then 99, 109 and 114
Instantiated(bytes, ok) ==
    IF ~WasmValid(bytes)
    THEN RunFails("CompileError")
    ELSE IF ~ok
    THEN RunFails("LinkError")
    ELSE /\ wasmModule' = WasmExports(bytes)
         /\ bound' = BindExports(shim.exportStmts, WasmExports(bytes))
         /\ runPc' = "evaluated"
         /\ UNCHANGED <<fault, thrown>>

\* what the runtime has when the module looks for it (lines 70, 73 and 88)
Runtimes == [buffer : BOOLEAN, atob : BOOLEAN]
ContentTypes == {"", "application/wasm", "text/html"}

\* generateWasmInitCode(imports, exports, wasmUrl)
Generate ==
    /\ shim = Null
    /\ shim' = GenerateWasmInitCode(genImports, genExports, genUrl)
    /\ UNCHANGED <<pluginVars, hostVars, resolveRet, loadVars, genImports, genExports,
                   genUrl, runPc, response, bytesIn, wasmModule, fault, thrown, bound>>

\* the module starts in runtime e: lines 105-110, then 64-78 or up to the fetch
RunStart(e) ==
    /\ shim # Null
    /\ runPc = "off"
    /\ IF StartsWithData(shim.wasmUrl)
       THEN IF Decoder(e) = Null
            THEN RunFails("No available base64 decoder") /\ UNCHANGED bytesIn
            ELSE /\ bytesIn' = Base64Decode(Base64Content(shim.wasmUrl))
                 /\ runPc' = "instantiate"
                 /\ UNCHANGED <<wasmModule, fault, thrown, bound>>
       ELSE /\ runPc' = "fetch"
            /\ UNCHANGED <<bytesIn, wasmModule, fault, thrown, bound>>
    /\ UNCHANGED <<pluginVars, hostVars, resolveRet, loadVars, genImports, genExports,
                   genUrl, shim, response>>

\* lines 85-89: the server answers with some body and content type, or not at all
RunFetch(ok, contentType, body, streaming) ==
    /\ runPc = "fetch"
    /\ IF ~ok
       THEN RunFails("fetch failed") /\ UNCHANGED response
       ELSE /\ response' = [contentType |-> contentType, body |-> body]
            /\ runPc' = IF streaming /\ contentType = "application/wasm"
                        THEN "instantiateStreaming"
                        ELSE "arrayBuffer"
            /\ UNCHANGED <<wasmModule, fault, thrown, bound>>
    /\ UNCHANGED <<pluginVars, hostVars, resolveRet, loadVars, genImports, genExports,
                   genUrl, shim, bytesIn>>

\* lines 90-91
RunInstantiateStreaming(ok) ==
    /\ runPc = "instantiateStreaming"
    /\ Instantiated(response.body, ok)
    /\ UNCHANGED <<pluginVars, hostVars, resolveRet, loadVars, genImports, genExports,
                   genUrl, shim, response, bytesIn>>

\* line 94
RunArrayBuffer(ok) ==
    /\ runPc = "arrayBuffer"
    /\ IF ~ok
       THEN RunFails("body stream failed") /\ UNCHANGED bytesIn
       ELSE /\ bytesIn' = response.body
            /\ runPc' = "instantiate"
            /\ UNCHANGED <<wasmModule, fault, thrown, bound>>
    /\ UNCHANGED <<pluginVars, hostVars, resolveRet, loadVars, genImports, genExports,
                   genUrl, shim, response>>

\* lines 80-81 and 95-96
RunInstantiate(ok) ==
    /\ runPc = "instantiate"
    /\ Instantiated(bytesIn, ok)
    /\ UNCHANGED <<pluginVars, hostVars, resolveRet, loadVars, genImports, genExports,
                   genUrl, shim, response, bytesIn>>

---------------------------------------------------------------------------
(* The generated module's specification *)

ModulePool == {"env", "js"}
NamePool == {"log", "print"}
ExportPool == {"add", "sub"}

SeqsUpTo(S, n) == UNION {[1..k -> S] : k \in 0..n}
Distinct(q) == \A i, j \in 1..Len(q) : i # j => q[i] # q[j]

\* an ImportGroup: names in declaration order, repeats kept
ImportGroups == [from : ModulePool, names : SeqsUpTo(NamePool, MaxNames) \ {<<>>}]
\* what parseWasm can return: the groups' from strings are distinct
ImportLists ==
    {q \in SeqsUpTo(ImportGroups, Cardinality(ModulePool)) :
        \A i, j \in 1..Len(q) : i # j => q[i].from # q[j].from}
ExportLists == {q \in SeqsUpTo(ExportPool, MaxExports) : Distinct(q)}
WasmUrls ==
    {CreateBase64Uri(c) : c \in Contents} \cup {AssetUrl(Basename(FooA)), AssetUrl(HashedName(FooA))}

PluginIdle ==
    /\ plugin = "unconstructed"
    /\ options = [maxFileSize |-> Undefined, targetEnv |-> Undefined]
    /\ maxFileSize = Undefined /\ targetEnv = Undefined /\ configError = ""
    /\ files = [p \in WasmFiles |-> Prefix(1)]
    /\ meta = [p \in WasmFiles |-> Undefined]
    /\ resolveRet = Undefined

ShimInit ==
    /\ PluginIdle
    /\ LoadIdle
    /\ genImports \in ImportLists
    /\ genExports \in ExportLists
    /\ genUrl \in WasmUrls
    /\ shim = Null /\ runPc = "off" /\ response = Null
    /\ bytesIn = NoBytes /\ wasmModule = Null /\ fault = Null
    /\ thrown = <<>> /\ bound = <<>>

ShimNext ==
    \/ Generate
    \/ \E e \in Runtimes : RunStart(e)
    \/ \E ok \in BOOLEAN, ct \in ContentTypes, body \in Contents, st \in BOOLEAN :
            RunFetch(ok, ct, body, st)
    \/ \E ok \in BOOLEAN : RunInstantiateStreaming(ok)
    \/ \E ok \in BOOLEAN : RunArrayBuffer(ok)
    \/ \E ok \in BOOLEAN : RunInstantiate(ok)

ShimSpec == ShimInit /\ [][ShimNext]_vars


---------------------------------------------------------------------------
(* Properties of the plugin, checked under Spec *)

\* load got past statSync: the placement has been decided
Decided == parsePc # "none"
\* load returned module text
Returned == pc = "done" /\ ret.t = "code"
\* the file is larger than the threshold, or the threshold is 0
OverThreshold == maxFileSize = Num(0) \/ JsGt(Num(statSize), maxFileSize)
\* the returned module text loads the asset that this load registered
LoadsOwnAsset ==
    /\ Len(emitted) = 1
    /\ ~StartsWithData(ret.code.wasmUrl)
    /\ ret.code.wasmUrl = AssetUrl(emitted[1].fileName)

\* the placement rule of the specification: inline for node; for browser,
\* inline when the threshold is not 0 and the size does not exceed it
InlineRule(mfs, te, size) ==
    \/ te = Str("node")
    \/ te = Str("browser") /\ mfs # Num(0) /\ JsLe(Num(size), mfs)

C3_ExternalNameIsHashed ==
    (Returned /\ ~shouldInline /\ ~IsNaN(maxFileSize)
        /\ resolveRet = [t |-> "id", id |-> loadId]) =>
        /\ emitted[1].fileName = HashedNameStem(loadId.stem, Md5Hex8(PathString(loadId)))
        /\ ret.code.wasmUrl = AssetUrl(emitted[1].fileName)

\* C4: when a step of load fails, no module text is returned, this.error is
\* called exactly once, and no call site runs a second time, also when
\* parseWasm and createBase64UriForWasm both reject.
C4_FailureReportedOnce ==
    /\ \A site \in CallSites : calls[site] <= 1
    /\ (parsePc = "rejected" \/ encPc = "rejected") => pc \in {"await", "done"}
    /\ (pc = "done" /\ EndsWithWasm(loadId)) =>
          \/ /\ ret.t = "code"
             /\ calls["error"] = 0
             /\ parsePc = "fulfilled" /\ encPc = "fulfilled"
          \/ /\ ret = Undefined
             /\ calls["error"] = 1
    /\ (pc # "done") => calls["error"] = 0

\* both concurrent promises rejected and the load ended with one report
C4_Witness ==
    /\ pc = "done"
    /\ parsePc = "rejected" /\ encPc = "rejected"
    /\ calls["error"] = 1
    /\ ret = Undefined

\* a number that is not negative, as the check of line 132 reads it: of type
\* number and not below 0 (which NaN is not)
NonNegativeNumber(x) == x.t = "number" /\ (IsNaN(x) \/ x.v >= 0)
\* the options wasmPlugin must refuse
InvalidOptions(o) ==
    \/ o.targetEnv \notin {Undefined, Str("node"), Str("browser")}
    \/ o.maxFileSize # Undefined /\ ~NonNegativeNumber(o.maxFileSize)
\* no hook has run
NoHookRan == pc = "idle" /\ resolveRet = Undefined /\ \A p \in WasmFiles : meta[p] = Undefined

C5_Validated ==
    /\ plugin # "ready" => NoHookRan
    /\ plugin # "unconstructed" =>
          /\ plugin = "threw" <=> InvalidOptions(options)
          /\ plugin = "threw" <=> configError # ""
    /\ plugin = "ready" =>
          /\ maxFileSize = IF options.maxFileSize = Undefined
                           THEN Num(14336) ELSE options.maxFileSize
          /\ targetEnv = IF options.targetEnv = Undefined
                         THEN Str("node") ELSE options.targetEnv
C5_Frozen ==
    plugin = "ready" =>
        plugin' = "ready" /\ maxFileSize' = maxFileSize /\ targetEnv' = targetEnv

Delivered ==
    IF StartsWithData(ret.code.wasmUrl)
    THEN Base64Decode(Base64Content(ret.code.wasmUrl))
    ELSE emitted[1].source

\* C8 as stated: the imports and exports in the returned module text are those
\* of the very bytes it delivers, whatever a concurrent writer does to the file.
C8_ShimDescribesDeliveredBytes ==
    Returned =>
        /\ WasmValid(Delivered)
        /\ ret.code.exportStmts = ExportStmts(ParseResult(Delivered).exports)
        /\ ret.code.importObject = ImportObject(ParseResult(Delivered).imports)

\* C9 as stated: resolveId attaches an asset name to a file only when load
\* would place that file externally, so never under targetEnv = node.
C9_AttachesOnlyWhenExternal ==
    [][\A p \in WasmFiles :
          meta'[p] # meta[p] => ~ShouldInline(maxFileSize, targetEnv, Len(files[p]))]_vars

C10_Registered ==
    /\ (Returned /\ ~StartsWithData(ret.code.wasmUrl)) =>
          /\ Len(emitted) = 1
          /\ emitted[1].type = "asset"
          /\ AssetUrl(emitted[1].fileName) = ret.code.wasmUrl
          /\ emitted[1].source = emitBuf
    /\ (Returned /\ StartsWithData(ret.code.wasmUrl)) => emitted = <<>>
    /\ (Decided /\ shouldInline) => emitted = <<>>
    /\ emitted # <<>> => pc = "done"
C10_RegistersFileBytes ==
    emitted' # emitted /\ emitted' # <<>> =>
        /\ emitted = <<>>
        /\ emitted'[1].source = files[loadId]
        /\ pc = "emit"

\* C10: module text whose wasmUrl is a bare asset name is returned only by a
\* load that has registered, through emitFile, an asset of exactly that name
\* holding the file's bytes; an inline load registers nothing.
C10_AssetRegisteredBeforeReferenced == []C10_Registered /\ [][C10_RegistersFileBytes]_vars

\* a load returned module text naming the hashed asset it registered
C10_Witness ==
    /\ Returned
    /\ emitted = <<Asset(HashedName(loadId), emitBuf)>>
    /\ ret.code.wasmUrl = AssetUrl(HashedName(loadId))
    /\ emitBuf # <<>>

---------------------------------------------------------------------------
(* Properties of the generated module, checked under ShimSpec *)

\* C6: when decoding, fetching or instantiating fails while the module is
\* evaluated, exactly one error leaves it, whose message wraps the message of
\* the failure, and no export is bound; the exports are bound all together,
\* to the instance's members, or not at all.
C6_SingleWrappedError ==
    /\ fault # Null <=> runPc = "failed"
    /\ runPc = "failed" =>
          /\ Len(thrown) = 1
          /\ thrown[1] = "WASM initialization failed: " \o fault.s
          /\ bound = <<>>
    /\ runPc # "failed" => thrown = <<>>
    /\ runPc = "evaluated" =>
          /\ [k \in 1..Len(bound) |-> bound[k].name] = genExports
          /\ \A k \in 1..Len(bound) : bound[k].value = Member(wasmModule, genExports[k])
    /\ runPc \notin {"evaluated"} => bound = <<>>

\* no decoder in the runtime: the module failed with exports to bind
C6_Witness ==
    /\ runPc = "failed"
    /\ fault = Str("No available base64 decoder")
    /\ Len(genExports) = 2
    /\ Len(thrown) = 1

\* C7: the generated text has one namespace import per import group, in the
\* order of imports; an import object keyed by the groups' from strings in
\* that order, each name mapped to the member of that name of the group's own
\* binding; and one export per name of exports, in order, names unchanged.
C7_OrderPreserving ==
    shim # Null =>
        /\ Len(shim.importStmts) = Len(genImports)
        /\ Len(shim.importObject) = Len(genImports)
        /\ \A i \in 1..Len(genImports) :
              /\ shim.importStmts[i].from = genImports[i].from
              /\ shim.importObject[i].key = genImports[i].from
              /\ [j \in 1..Len(shim.importObject[i].props) |->
                     shim.importObject[i].props[j].key] = genImports[i].names
              /\ \A j \in 1..Len(shim.importObject[i].props) :
                    /\ shim.importObject[i].props[j].member = genImports[i].names[j]
                    /\ shim.importObject[i].props[j].binding = shim.importStmts[i].binding
        /\ \A i, j \in 1..Len(genImports) :
              i # j => shim.importStmts[i].binding # shim.importStmts[j].binding
        /\ [k \in 1..Len(shim.exportStmts) |-> shim.exportStmts[k].name] = genExports
        /\ \A k \in 1..Len(shim.exportStmts) :
              shim.exportStmts[k].member = genExports[k]
        /\ shim.wasmUrl = genUrl

\* text generated for two groups, the first of two names, and two exports
C7_Witness ==
    /\ shim # Null
    /\ Len(genImports) = 2
    /\ genImports[1].names = <<"print", "log">>
    /\ genExports = <<"sub", "add">>
    /\ Len(shim.exportStmts) = 2

=============================================================================
